---- MODULE Spec2Model ----
(***************************************************************************)
(* The resource graph declared by index.ts (an S3 landing bucket, an IAM   *)
(* role for Snowflake and the Snowflake objects of the load pipeline) and  *)
(* the operations the README runs on it: `pulumi up`, the manual patch of  *)
(* the role's trust policy, uploads into the bucket and `pulumi destroy`.  *)
(* Text values are sequences of one-character strings, so that template    *)
(* strings, toUpperCase() and URL prefixes are computed, not assumed.      *)
(***************************************************************************)
EXTENDS Integers, Sequences, FiniteSets, TLC

VARIABLES
    environment,   \* pulumi.getStack(): the stack this program runs in
    clock,         \* wall clock read by Date.now()
    trustPolicy,   \* the trust statement written in index.ts (operator-editable)
    phase,         \* "idle", "applying", "deleting" or "destroying"
    runNow,        \* Date.now() as evaluated by the program run of this apply
    registered,    \* resources registered by the program run, in order
    done,          \* resources the running apply has already stepped
    ops,           \* <<resource, operation>> performed by the running/last apply
    reapply,       \* the running/last apply started from a completed apply
                   \* of the same program text
    state,         \* the stack state: resource -> [inputs, outputs]
    pending,       \* replaced resources waiting for their delete
    cloud,         \* what exists at the providers: [s3, iam, sf]
    previews       \* stack name -> physical names a program run generates

vars == <<environment, clock, trustPolicy, phase, runNow, registered, done,
          ops, reapply, state, pending, cloud, previews>>

----------------------------------------------------------------------------
(* Bounds *)

MaxClock == 3
MaxObjects == 1

----------------------------------------------------------------------------
(* Text *)

Lower == <<"a","b","c","d","e","f","g","h","i","j","k","l","m","n","o","p","q","r","s","t","u","v","w","x","y","z">>
Upper == <<"A","B","C","D","E","F","G","H","I","J","K","L","M","N","O","P","Q","R","S","T","U","V","W","X","Y","Z">>
Digits == <<"0","1","2","3","4","5","6","7","8","9">>

UpperChar(c) ==
    IF \E i \in 1..Len(Lower) : Lower[i] = c
    THEN Upper[CHOOSE i \in 1..Len(Lower) : Lower[i] = c]
    ELSE c

ToUpperCase(s) == [i \in 1..Len(s) |-> UpperChar(s[i])]

RECURSIVE NumberToString(_)
NumberToString(n) ==
    IF n < 10 THEN <<Digits[n + 1]>>
    ELSE NumberToString(n \div 10) \o <<Digits[(n % 10) + 1]>>

IsPrefix(p, s) == Len(p) <= Len(s) /\ SubSeq(s, 1, Len(p)) = p

EndsWith(s, c) == Len(s) > 0 /\ s[Len(s)] = c

\* position of the first occurrence of character c in s at or after i (0: none)
RECURSIVE IndexFrom(_, _, _)
IndexFrom(s, c, i) ==
    IF i > Len(s) THEN 0
    ELSE IF s[i] = c THEN i
    ELSE IndexFrom(s, c, i + 1)

----------------------------------------------------------------------------
(* Literals of index.ts *)

projectName == <<"d","a","t","a","-","p","i","p","e","l","i","n","e">>

BucketInfix == <<"-","d","a","t","a","-">>
Hyphen == <<"-">>
RoleInfix == <<"-","s","n","o","w","f","l","a","k","e","-","a","c","c","e","s","s","-">>
WhSuffix == <<"_","W","H">>
DbSuffix == <<"_","D","B">>
IntSuffix == <<"_","S","3","_","I","N","T">>
RawName == <<"R","A","W">>
CsvFormatName == <<"C","S","V","_","F","O","R","M","A","T">>
ParquetFormatName == <<"P","A","R","Q","U","E","T","_","F","O","R","M","A","T">>
StageName == <<"S","3","_","S","T","A","G","E">>
TableName == <<"T","A","X","I","_","D","A","T","A">>
S3Scheme == <<"s","3",":","/","/">>
Slash == <<"/">>
RawPrefix == <<"/","r","a","w","/">>
Wildcard == <<"*">>
PlaceholderExternalId == <<"s","n","o","w","f","l","a","k","e","_","e","x","t","e","r","n","a","l","_","i","d">>
SlashStar == <<"/","*">>

BucketPolicyActions == {"s3:GetObject", "s3:GetObjectVersion", "s3:ListBucket"}
RolePolicyActions == {"s3:GetObject", "s3:GetObjectVersion", "s3:ListBucket", "s3:GetBucketLocation"}

\* a committed trust statement whose external ID is one Snowflake generates
TrustPlaceholder_KnownIdentity ==
    [principal |-> Wildcard, externalId |-> <<"S","F","_","1">>]

\* the trust statement as committed: wildcard principal, placeholder external ID
TrustPlaceholder == [principal |-> Wildcard, externalId |-> PlaceholderExternalId]

----------------------------------------------------------------------------
(* The declarations of index.ts, in program order *)

\* the same declarations, the stage written above the integration it names
Decls_StageFirst ==
    <<"dataBucket", "bucketPolicy", "snowflakeRole", "snowflakePolicy",
      "warehouse", "database", "schema", "s3Stage", "storageIntegration",
      "csvFileFormat", "parquetFileFormat", "taxiTable">>

Decls == <<"dataBucket", "bucketPolicy", "snowflakeRole", "snowflakePolicy",
           "warehouse", "database", "schema", "storageIntegration",
           "csvFileFormat", "parquetFileFormat", "s3Stage", "taxiTable">>

Resources == {Decls[i] : i \in 1..Len(Decls)}

\* the logical name (first constructor argument) each declaration registers
LogicalName(r) ==
    CASE r = "dataBucket"         -> projectName \o <<"-","b","u","c","k","e","t">>
      [] r = "bucketPolicy"       -> projectName \o <<"-","b","u","c","k","e","t","-","p","o","l","i","c","y">>
      [] r = "snowflakeRole"      -> projectName \o <<"-","s","n","o","w","f","l","a","k","e","-","r","o","l","e">>
      [] r = "snowflakePolicy"    -> projectName \o <<"-","s","n","o","w","f","l","a","k","e","-","p","o","l","i","c","y">>
      [] r = "warehouse"          -> projectName \o <<"-","w","a","r","e","h","o","u","s","e">>
      [] r = "database"           -> projectName \o <<"-","d","a","t","a","b","a","s","e">>
      [] r = "schema"             -> projectName \o <<"-","s","c","h","e","m","a">>
      [] r = "storageIntegration" -> projectName \o <<"-","s","t","o","r","a","g","e","-","i","n","t","e","g","r","a","t","i","o","n">>
      [] r = "csvFileFormat"      -> projectName \o <<"-","c","s","v","-","f","o","r","m","a","t">>
      [] r = "parquetFileFormat"  -> projectName \o <<"-","p","a","r","q","u","e","t","-","f","o","r","m","a","t">>
      [] r = "s3Stage"            -> projectName \o <<"-","s","3","-","s","t","a","g","e">>
      [] r = "taxiTable"          -> projectName \o <<"-","t","a","x","i","-","t","a","b","l","e">>

\* the provider a declaration belongs to
Provider(r) ==
    IF r \in {"dataBucket", "bucketPolicy", "snowflakeRole", "snowflakePolicy"}
    THEN "aws" ELSE "snowflake"

(* The input properties of each declaration.  dep maps each referenced     *)
(* resource to its resolved outputs; env is pulumi.getStack(), now is      *)
(* Date.now() and trust the trust statement of the program text.           *)

\* the bucket declared without forceDestroy
dataBucket_KeepObjects(env, now) ==
    [bucket       |-> projectName \o BucketInfix \o env \o Hyphen \o NumberToString(now),
     forceDestroy |-> FALSE]

dataBucket(env, now) ==
    [bucket       |-> projectName \o BucketInfix \o env \o Hyphen \o NumberToString(now),
     forceDestroy |-> TRUE]

bucketPolicy(dep) ==
    [bucket |-> dep["dataBucket"].id,
     policy |-> [principal |-> Wildcard,
                 actions   |-> BucketPolicyActions,
                 resources |-> {dep["dataBucket"].arn,
                                dep["dataBucket"].arn \o SlashStar}]]

snowflakeRole(env, trust) ==
    [name             |-> projectName \o RoleInfix \o env,
     assumeRolePolicy |-> trust]

\* the role policy granting the objects but not the bucket itself
snowflakePolicy_ObjectsOnly(dep) ==
    [role   |-> dep["snowflakeRole"].id,
     policy |-> [actions   |-> RolePolicyActions,
                 resources |-> {dep["dataBucket"].arn \o SlashStar}]]

snowflakePolicy(dep) ==
    [role   |-> dep["snowflakeRole"].id,
     policy |-> [actions   |-> RolePolicyActions,
                 resources |-> {dep["dataBucket"].arn,
                                dep["dataBucket"].arn \o SlashStar}]]

warehouse ==
    [name |-> ToUpperCase(projectName) \o WhSuffix]

database ==
    [name |-> ToUpperCase(projectName) \o DbSuffix]

schema(dep) ==
    [name |-> RawName, database |-> dep["database"].name]

storageIntegration(dep) ==
    [name                    |-> ToUpperCase(projectName) \o IntSuffix,
     enabled                 |-> TRUE,
     storageAwsRoleArn       |-> dep["snowflakeRole"].arn,
     storageAllowedLocations |-> {S3Scheme \o dep["dataBucket"].bucket \o Slash}]

csvFileFormat(dep) ==
    [name     |-> CsvFormatName,
     database |-> dep["database"].name,
     schema   |-> dep["schema"].name]

parquetFileFormat(dep) ==
    [name     |-> ParquetFormatName,
     database |-> dep["database"].name,
     schema   |-> dep["schema"].name]

\* the stage with the bucket name written out instead of read from the bucket
s3Stage_GuessedBucket(dep) ==
    [name               |-> StageName,
     database           |-> dep["database"].name,
     schema             |-> dep["schema"].name,
     url                |-> S3Scheme \o projectName \o BucketInfix \o <<"d","e","v">> \o RawPrefix,
     storageIntegration |-> dep["storageIntegration"].name]

\* the stage with the integration's name written out instead of read from it
s3Stage_NamedIntegration(dep) ==
    [name               |-> StageName,
     database           |-> dep["database"].name,
     schema             |-> dep["schema"].name,
     url                |-> S3Scheme \o dep["dataBucket"].bucket \o RawPrefix,
     storageIntegration |-> ToUpperCase(projectName) \o IntSuffix]

s3Stage(dep) ==
    [name               |-> StageName,
     database           |-> dep["database"].name,
     schema             |-> dep["schema"].name,
     url                |-> S3Scheme \o dep["dataBucket"].bucket \o RawPrefix,
     storageIntegration |-> dep["storageIntegration"].name]

taxiTable(dep) ==
    [name     |-> TableName,
     database |-> dep["database"].name,
     schema   |-> dep["schema"].name]

\* the input properties of declaration r, given the outputs of every resource
Props(r, dep, env, now, trust) ==
    CASE r = "dataBucket"         -> dataBucket(env, now)
      [] r = "bucketPolicy"       -> bucketPolicy(dep)
      [] r = "snowflakeRole"      -> snowflakeRole(env, trust)
      [] r = "snowflakePolicy"    -> snowflakePolicy(dep)
      [] r = "warehouse"          -> warehouse
      [] r = "database"           -> database
      [] r = "schema"             -> schema(dep)
      [] r = "storageIntegration" -> storageIntegration(dep)
      [] r = "csvFileFormat"      -> csvFileFormat(dep)
      [] r = "parquetFileFormat"  -> parquetFileFormat(dep)
      [] r = "s3Stage"            -> s3Stage(dep)
      [] r = "taxiTable"          -> taxiTable(dep)

\* outputs that are not known (yet): every attribute reads as the given text
Unknown(s) ==
    [id |-> s, bucket |-> s, arn |-> s, name |-> s,
     storageAwsIamUserArn |-> s, storageAwsExternalId |-> s]

(* The edges of the graph are not written down anywhere: a declaration      *)
(* depends on exactly the resources whose output attributes flow into its   *)
(* input properties.  x is such a resource for r when changing x's outputs  *)
(* changes r's inputs.                                                      *)
RefsTable ==
    [r \in Resources |->
        {x \in Resources :
            LET d1 == [y \in Resources |-> Unknown(<<"?">>)]
                d2 == [d1 EXCEPT ![x] = Unknown(<<"!">>)]
            IN  Props(r, d1, <<>>, 0, TrustPlaceholder)
                    # Props(r, d2, <<>>, 0, TrustPlaceholder)}]

Refs(r) == RefsTable[r]

\* the inputs of declaration r, its references resolved from stack state st
Inputs(r, st, env, now, trust) ==
    Props(r,
          [x \in Resources |-> IF x \in DOMAIN st THEN st[x].outputs
                               ELSE Unknown(<<>>)],
          env, now, trust)

----------------------------------------------------------------------------
(* The providers: what creating, updating and deleting a resource does *)

S3ArnPrefix == <<"a","r","n",":","a","w","s",":","s","3",":",":",":">>
RoleArnPrefix == <<"a","r","n",":","a","w","s",":","i","a","m",":",":","0",":","r","o","l","e","/">>

\* the AWS IAM user and external ID Snowflake generates for an integration
SnowflakeIdentities ==
    {[user |-> <<"s","f","-","u","s","e","r","-","1">>, externalId |-> <<"S","F","_","1">>],
     [user |-> <<"s","f","-","u","s","e","r","-","2">>, externalId |-> <<"S","F","_","2">>]}

NoIdentity == [user |-> <<>>, externalId |-> <<>>]

EmptyMap == [x \in {} |-> {}]

Put(f, k, v) == [x \in DOMAIN f \cup {k} |-> IF x = k THEN v ELSE f[x]]

Remove(f, k) == [x \in DOMAIN f \ {k} |-> f[x]]

\* the output attributes the provider returns for a resource
Outputs(r, in, ident) ==
    CASE r = "dataBucket" ->
             [id |-> in.bucket, bucket |-> in.bucket, arn |-> S3ArnPrefix \o in.bucket]
      [] r = "bucketPolicy" ->
             [id |-> in.bucket]
      [] r = "snowflakeRole" ->
             [id |-> in.name, name |-> in.name, arn |-> RoleArnPrefix \o in.name]
      [] r = "snowflakePolicy" ->
             [id |-> in.role]
      [] r = "storageIntegration" ->
             [name |-> in.name,
              storageAwsIamUserArn |-> ident.user,
              storageAwsExternalId |-> ident.externalId]
      [] OTHER ->
             [name |-> in.name]

\* the Snowflake object a declaration names: account-level objects have no
\* database, a schema has no schema
SfKey(r, in) ==
    [kind     |-> r,
     database |-> IF r \in {"warehouse", "database", "storageIntegration"}
                  THEN <<>> ELSE in.database,
     schema   |-> IF r \in {"warehouse", "database", "storageIntegration", "schema"}
                  THEN <<>> ELSE in.schema,
     name     |-> in.name]

\* the input properties whose change forces a replacement of the resource
ReplaceProps(r) ==
    CASE r = "dataBucket"      -> {"bucket"}
      [] r = "bucketPolicy"    -> {"bucket"}
      [] r = "snowflakeRole"   -> {"name"}
      [] r = "snowflakePolicy" -> {"role"}
      [] r \in {"warehouse", "database", "storageIntegration"} -> {"name"}
      [] r = "schema"          -> {"name", "database"}
      [] OTHER                 -> {"name", "database", "schema"}

NeedsReplace(r, old, new) == \E p \in ReplaceProps(r) : old[p] # new[p]

CloudCreate(c, r, in, out) ==
    CASE r = "dataBucket" ->
             [c EXCEPT !.s3 = Put(c.s3, in.bucket, [objects |-> {}, policy |-> {}])]
      [] r = "bucketPolicy" ->
             [c EXCEPT !.s3[in.bucket].policy = {in.policy}]
      [] r = "snowflakeRole" ->
             [c EXCEPT !.iam = Put(c.iam, in.name,
                                   [arn    |-> out.arn,
                                    trust  |-> in.assumeRolePolicy,
                                    inline |-> {}])]
      [] r = "snowflakePolicy" ->
             [c EXCEPT !.iam[in.role].inline = {in.policy}]
      [] OTHER ->
             [c EXCEPT !.sf = Put(c.sf, SfKey(r, in), [inputs |-> in, outputs |-> out])]

\* an in-place update keeps the object (a bucket's objects, a role's inline
\* policy, an integration's generated identity) and sets the changed properties
CloudUpdate(c, r, in, out) ==
    CASE r = "dataBucket" -> c
      [] r = "bucketPolicy" ->
             [c EXCEPT !.s3[in.bucket].policy = {in.policy}]
      [] r = "snowflakeRole" ->
             [c EXCEPT !.iam[in.name].trust = in.assumeRolePolicy]
      [] r = "snowflakePolicy" ->
             [c EXCEPT !.iam[in.role].inline = {in.policy}]
      [] OTHER ->
             [c EXCEPT !.sf[SfKey(r, in)] = [inputs |-> in, outputs |-> out]]

\* a bucket that holds objects can be deleted only when forceDestroy is set
Deletable(c, r, in) ==
    r = "dataBucket" => (in.forceDestroy \/ c.s3[in.bucket].objects = {})

CloudDelete(c, r, in) ==
    CASE r = "dataBucket" ->
             [c EXCEPT !.s3 = Remove(c.s3, in.bucket)]
      [] r = "bucketPolicy" ->
             [c EXCEPT !.s3[in.bucket].policy = {}]
      [] r = "snowflakeRole" ->
             [c EXCEPT !.iam = Remove(c.iam, in.name)]
      [] r = "snowflakePolicy" ->
             [c EXCEPT !.iam[in.role].inline = {}]
      [] OTHER ->
             [c EXCEPT !.sf = Remove(c.sf, SfKey(r, in))]

----------------------------------------------------------------------------
(* Who may read what: the trust policy, the role policy and the stage *)

\* the bucket and the key prefix of an s3://bucket/prefix URL
BucketOfUrl(url) ==
    LET rest == SubSeq(url, Len(S3Scheme) + 1, Len(url))
        i    == IndexFrom(rest, "/", 1)
    IN  IF i = 0 THEN rest ELSE SubSeq(rest, 1, i - 1)

PrefixOfUrl(url) ==
    LET rest == SubSeq(url, Len(S3Scheme) + 1, Len(url))
        i    == IndexFrom(rest, "/", 1)
    IN  IF i = 0 THEN <<>> ELSE SubSeq(rest, i + 1, Len(rest))

\* a policy Resource matches an ARN literally, or as a prefix when it ends in *
ArnMatches(pattern, arn) ==
    IF EndsWith(pattern, "*")
    THEN IsPrefix(SubSeq(pattern, 1, Len(pattern) - 1), arn)
    ELSE pattern = arn

\* sts:AssumeRole on the role with this ARN, by this principal, passing this
\* external ID: the statement's Principal and its StringEquals condition
CanAssume(c, roleArn, principal, externalId) ==
    \E n \in DOMAIN c.iam :
        /\ c.iam[n].arn = roleArn
        /\ c.iam[n].trust.principal \in {Wildcard, principal}
        /\ c.iam[n].trust.externalId = externalId

\* the role's inline policy allows the action on the resource
RoleAllows(c, roleArn, action, resourceArn) ==
    \E n \in DOMAIN c.iam :
        /\ c.iam[n].arn = roleArn
        /\ \E p \in c.iam[n].inline :
              /\ action \in p.actions
              /\ \E pat \in p.resources : ArnMatches(pat, resourceArn)

Integrations(c) == {k \in DOMAIN c.sf : k.kind = "storageIntegration"}

Stages(c) == {k \in DOMAIN c.sf : k.kind = "s3Stage"}

\* Snowflake, as the identity generated for the integration, can assume the
\* role the integration names
SnowflakeCanAssume(c) ==
    \E i \in Integrations(c) :
        /\ c.sf[i].inputs.enabled
        /\ CanAssume(c, c.sf[i].inputs.storageAwsRoleArn,
                     c.sf[i].outputs.storageAwsIamUserArn,
                     c.sf[i].outputs.storageAwsExternalId)

\* the stage reaches its bucket: its integration exists, allows the stage's
\* URL, can assume its role, and the role may list the bucket
StageReaches(c, s) ==
    LET url == c.sf[s].inputs.url
        b   == BucketOfUrl(url)
    IN  \E i \in Integrations(c) :
            /\ i.name = c.sf[s].inputs.storageIntegration
            /\ c.sf[i].inputs.enabled
            /\ \E loc \in c.sf[i].inputs.storageAllowedLocations : IsPrefix(loc, url)
            /\ CanAssume(c, c.sf[i].inputs.storageAwsRoleArn,
                         c.sf[i].outputs.storageAwsIamUserArn,
                         c.sf[i].outputs.storageAwsExternalId)
            /\ b \in DOMAIN c.s3
            /\ RoleAllows(c, c.sf[i].inputs.storageAwsRoleArn,
                          "s3:ListBucket", S3ArnPrefix \o b)

StageCanList(c) == \E s \in Stages(c) : StageReaches(c, s)

\* LIST @S3_STAGE: the objects under the stage's URL, when the stage reaches them
StageListing(c) ==
    UNION {IF StageReaches(c, s)
           THEN {k \in c.s3[BucketOfUrl(c.sf[s].inputs.url)].objects :
                    IsPrefix(PrefixOfUrl(c.sf[s].inputs.url), k)}
           ELSE {} : s \in Stages(c)}

\* a principal asking S3 for something: who it is and the ARN of the role
\* it has assumed (empty: none)
Outsider == [id |-> <<"a","n","y","o","n","e">>, assumed |-> <<>>]

Principals(c) ==
    {Outsider} \cup
    {[id |-> <<"s","e","s","s","i","o","n">>, assumed |-> c.iam[n].arn] : n \in DOMAIN c.iam}

\* the ARN an S3 action is checked against: the bucket for s3:ListBucket,
\* the object for the object actions
S3Resource(action, b, k) ==
    IF action = "s3:ListBucket" THEN S3ArnPrefix \o b
    ELSE S3ArnPrefix \o b \o Slash \o k

\* the bucket's policy allows the principal the action on the resource
BucketPolicyAllows(c, b, who, action, resourceArn) ==
    \E p \in c.s3[b].policy :
        /\ p.principal \in {Wildcard, who.id}
        /\ action \in p.actions
        /\ \E pat \in p.resources : ArnMatches(pat, resourceArn)

\* S3 grants the request when the bucket policy allows it, or when the
\* principal acts as a role whose policy allows it
S3Allows(c, b, who, action, k) ==
    \/ BucketPolicyAllows(c, b, who, action, S3Resource(action, b, k))
    \/ /\ who.assumed # <<>>
       /\ RoleAllows(c, who.assumed, action, S3Resource(action, b, k))

----------------------------------------------------------------------------
(* The exported outputs and the load-command templates *)

awsOutputs(st) ==
    [bucketName |-> st["dataBucket"].outputs.bucket,
     bucketArn  |-> st["dataBucket"].outputs.arn,
     roleArn    |-> st["snowflakeRole"].outputs.arn,
     roleName   |-> st["snowflakeRole"].outputs.name]

snowflakeOutputs(st) ==
    [warehouseName          |-> st["warehouse"].outputs.name,
     databaseName           |-> st["database"].outputs.name,
     schemaName             |-> st["schema"].outputs.name,
     stageName              |-> st["s3Stage"].outputs.name,
     tableName              |-> st["taxiTable"].outputs.name,
     storageIntegrationName |-> st["storageIntegration"].outputs.name]

\* the identifiers the exported instructions text refers to
instructions(st) ==
    [warehouse  |-> st["warehouse"].outputs.name,
     database   |-> st["database"].outputs.name,
     schema     |-> st["schema"].outputs.name,
     table      |-> <<"T","A","X","I","_","D","A","T","A">>,
     stage      |-> <<"S","3","_","S","T","A","G","E">>,
     fileFormat |-> <<"P","A","R","Q","U","E","T","_","F","O","R","M","A","T">>]

\* the identifiers snowflake/setup.sql refers to
setupSql ==
    [warehouse          |-> <<"D","A","T","A","_","P","I","P","E","L","I","N","E","_","W","H">>,
     database           |-> <<"D","A","T","A","_","P","I","P","E","L","I","N","E","_","D","B">>,
     schema             |-> <<"R","A","W">>,
     table              |-> <<"T","A","X","I","_","D","A","T","A">>,
     stage              |-> <<"S","3","_","S","T","A","G","E">>,
     fileFormat         |-> <<"P","A","R","Q","U","E","T","_","F","O","R","M","A","T">>,
     storageIntegration |-> <<"D","A","T","A","_","P","I","P","E","L","I","N","E","_","S","3","_","I","N","T">>]

----------------------------------------------------------------------------
(* The stacks and the objects the operator works with *)

\* the stack of the README (`pulumi stack init dev`) and the stack names of
\* the program's comment (dev, staging, prod)
Stack == <<"d","e","v">>

Envs == {<<"d","e","v">>, <<"s","t","a","g","i","n","g">>, <<"p","r","o","d">>}

\* object keys an upload may use: one under the stage's prefix, one outside
Keys == {<<"r","a","w","/","a">>, <<"t","m","p","/","b">>}

Range(s) == {s[i] : i \in 1..Len(s)}

\* the program run: declarations register top to bottom; a declaration that
\* reads a resource not yet declared, or repeats a logical name, aborts it
RECURSIVE Register(_, _)
Register(i, acc) ==
    IF i > Len(Decls) THEN acc
    ELSE IF /\ Refs(Decls[i]) \subseteq Range(acc)
            /\ \A x \in Range(acc) : LogicalName(x) # LogicalName(Decls[i])
         THEN Register(i + 1, Append(acc, Decls[i]))
         ELSE acc

\* the stack state a complete first apply of the program produces
RECURSIVE Resolve(_, _, _, _)
Resolve(i, st, env, now) ==
    IF i > Len(Decls) THEN st
    ELSE LET r  == Decls[i]
             in == Inputs(r, st, env, now, TrustPlaceholder)
         IN  Resolve(i + 1,
                     Put(st, r, [inputs |-> in, outputs |-> Outputs(r, in, NoIdentity)]),
                     env, now)

\* the physical name of each resource that has one, with its namespace: a
\* bucket name is global, a role name is per AWS account, a Snowflake name is
\* per account, per database or per schema
PhysicalNames(env, now) ==
    LET st == Resolve(1, EmptyMap, env, now) IN
    {[kind |-> "dataBucket", database |-> <<>>, schema |-> <<>>,
      name |-> st["dataBucket"].inputs.bucket],
     [kind |-> "snowflakeRole", database |-> <<>>, schema |-> <<>>,
      name |-> st["snowflakeRole"].inputs.name]}
    \cup {SfKey(r, st[r].inputs) : r \in {x \in Resources : Provider(x) = "snowflake"}}

Init ==
    /\ environment = Stack
    /\ clock = 0
    /\ trustPolicy = TrustPlaceholder
    /\ phase = "idle"
    /\ runNow = 0
    /\ registered = <<>>
    /\ done = {}
    /\ ops = {}
    /\ reapply = FALSE
    /\ state = EmptyMap
    /\ pending = <<>>
    /\ cloud = [s3 |-> EmptyMap, iam |-> EmptyMap, sf |-> EmptyMap]
    /\ previews = [e \in Envs |-> {}]

\* `pulumi up`: the program runs (reading Date.now()) and registers its resources
StartApply ==
    /\ phase = "idle"
    /\ clock < MaxClock
    /\ clock' = clock + 1
    /\ runNow' = clock'
    /\ registered' = Register(1, <<>>)
    /\ done' = {}
    /\ ops' = {}
    /\ reapply' = /\ DOMAIN state = Resources
                  /\ pending = <<>>
                  /\ state["snowflakeRole"].inputs.assumeRolePolicy = trustPolicy
    /\ phase' = "applying"
    /\ previews' = [previews EXCEPT ![environment] = PhysicalNames(environment, clock')]
    /\ UNCHANGED <<environment, trustPolicy, state, pending, cloud>>

\* the phase after resource r has been stepped
AfterStep(r, pend) ==
    IF done \cup {r} = Range(registered)
    THEN (IF pend = <<>> THEN "idle" ELSE "deleting")
    ELSE "applying"

\* the engine steps one registered resource whose references are resolved:
\* create it, leave it, update it in place, or create its replacement and
\* queue the old one for deletion
ApplyStep(r) ==
    /\ phase = "applying"
    /\ r \in Range(registered) \ done
    /\ Refs(r) \subseteq done
    /\ LET new == Inputs(r, state, environment, runNow, trustPolicy) IN
       IF r \notin DOMAIN state
       THEN \E ident \in (IF r = "storageIntegration"
                          THEN SnowflakeIdentities ELSE {NoIdentity}) :
               LET out == Outputs(r, new, ident) IN
               /\ cloud' = CloudCreate(cloud, r, new, out)
               /\ state' = Put(state, r, [inputs |-> new, outputs |-> out])
               /\ ops' = ops \cup {<<r, "create">>}
               /\ pending' = pending
       ELSE IF state[r].inputs = new
       THEN UNCHANGED <<cloud, state, ops, pending>>
       ELSE IF NeedsReplace(r, state[r].inputs, new)
       THEN LET out == Outputs(r, new, NoIdentity) IN
            /\ cloud' = CloudCreate(cloud, r, new, out)
            /\ state' = Put(state, r, [inputs |-> new, outputs |-> out])
            /\ ops' = ops \cup {<<r, "replace">>}
            /\ pending' = Append(pending, [res |-> r, inputs |-> state[r].inputs])
       ELSE /\ cloud' = CloudUpdate(cloud, r, new, state[r].outputs)
            /\ state' = Put(state, r, [inputs |-> new, outputs |-> state[r].outputs])
            /\ ops' = ops \cup {<<r, "update">>}
            /\ pending' = pending
    /\ done' = done \cup {r}
    /\ phase' = AfterStep(r, pending')
    /\ UNCHANGED <<environment, clock, trustPolicy, runNow, registered, reapply, previews>>

\* the phase once nothing is left to delete
Settled(st, pend) ==
    IF phase = "destroying" /\ (DOMAIN st # {} \/ pend # <<>>)
    THEN "destroying" ELSE IF pend # <<>> THEN "deleting" ELSE "idle"

\* the engine deletes a replaced resource, the last queued first; a delete
\* the provider refuses stops the operation and leaves the resource queued
DeleteStep ==
    /\ phase \in {"deleting", "destroying"}
    /\ pending # <<>>
    /\ LET p == pending[Len(pending)] IN
       IF Deletable(cloud, p.res, p.inputs)
       THEN /\ cloud' = CloudDelete(cloud, p.res, p.inputs)
            /\ pending' = SubSeq(pending, 1, Len(pending) - 1)
            /\ ops' = ops \cup {<<p.res, "delete">>}
            /\ phase' = Settled(state, pending')
       ELSE /\ phase' = "idle"
            /\ UNCHANGED <<cloud, pending, ops>>
    /\ UNCHANGED <<environment, clock, trustPolicy, runNow, registered, done,
                   reapply, state, previews>>

\* `pulumi destroy`
StartDestroy ==
    /\ phase = "idle"
    /\ DOMAIN state # {} \/ pending # <<>>
    /\ phase' = "destroying"
    /\ ops' = {}
    /\ done' = {}
    /\ reapply' = FALSE
    /\ UNCHANGED <<environment, clock, trustPolicy, runNow, registered, state,
                   pending, cloud, previews>>

\* destroy deletes a resource once nothing in the stack refers to it
DestroyStep(r) ==
    /\ phase = "destroying"
    /\ r \in DOMAIN state
    /\ \A x \in DOMAIN state : r \notin Refs(x)
    /\ IF Deletable(cloud, r, state[r].inputs)
       THEN /\ cloud' = CloudDelete(cloud, r, state[r].inputs)
            /\ state' = Remove(state, r)
            /\ ops' = ops \cup {<<r, "delete">>}
            /\ phase' = Settled(state', pending)
       ELSE /\ phase' = "idle"
            /\ UNCHANGED <<cloud, state, ops>>
    /\ UNCHANGED <<environment, clock, trustPolicy, runNow, registered, done,
                   reapply, pending, previews>>

\* `aws s3 cp`: the operator puts an object into the bucket whose name the
\* finished `pulumi up` printed (awsOutputs.bucketName)
Upload(k) ==
    /\ phase = "idle"
    /\ "dataBucket" \in DOMAIN state
    /\ LET b == state["dataBucket"].outputs.bucket IN
       /\ b \in DOMAIN cloud.s3
       /\ k \notin cloud.s3[b].objects
       /\ Cardinality(cloud.s3[b].objects) < MaxObjects
       /\ cloud' = [cloud EXCEPT !.s3[b].objects = @ \cup {k}]
    /\ UNCHANGED <<environment, clock, trustPolicy, phase, runNow, registered,
                   done, ops, reapply, state, pending, previews>>

\* README step 5: the operator reads STORAGE_AWS_IAM_USER_ARN and
\* STORAGE_AWS_EXTERNAL_ID off the integration and writes them into the
\* trust policy of index.ts
PatchTrust ==
    /\ phase = "idle"
    /\ "storageIntegration" \in DOMAIN state
    /\ LET out == state["storageIntegration"].outputs IN
       /\ trustPolicy' = [principal  |-> out.storageAwsIamUserArn,
                          externalId |-> out.storageAwsExternalId]
       /\ trustPolicy' # trustPolicy
    /\ UNCHANGED <<environment, clock, phase, runNow, registered, done, ops,
                   reapply, state, pending, cloud, previews>>

Next ==
    \/ StartApply
    \/ \E r \in Resources : ApplyStep(r)
    \/ DeleteStep
    \/ StartDestroy
    \/ \E r \in Resources : DestroyStep(r)
    \/ \E k \in Keys : Upload(k)
    \/ PatchTrust

Spec == Init /\ [][Next]_vars

\* the steps an engine operation takes once started; the engine runs an
\* operation it has started to its end
EngineStep ==
    \/ \E r \in Resources : ApplyStep(r)
    \/ DeleteStep
    \/ \E r \in Resources : DestroyStep(r)

FairSpec == Spec /\ WF_vars(EngineStep)

----------------------------------------------------------------------------
(* Naming across stacks: the same program run in several stacks *)

MaxStamp == 4

\* the program runs in stack env at time now and names its resources
Preview(env, now) ==
    /\ previews' = [previews EXCEPT ![env] = PhysicalNames(env, now)]
    /\ previews' # previews
    /\ UNCHANGED <<environment, clock, trustPolicy, phase, runNow, registered,
                   done, ops, reapply, state, pending, cloud>>

NamingNext == \E env \in Envs, now \in 1..MaxStamp : Preview(env, now)

NamingSpec == Init /\ [][NamingNext]_vars

----------------------------------------------------------------------------
(* Properties *)

SI == "storageIntegration"

\* an apply has completed: every declared resource is in the stack
Complete == phase = "idle" /\ DOMAIN state = Resources /\ pending = <<>>

\* the identity Snowflake generated for the stack's integration
Identity ==
    [principal  |-> state[SI].outputs.storageAwsIamUserArn,
     externalId |-> state[SI].outputs.storageAwsExternalId]

\* the objects in the stack's bucket under the stage's prefix raw/
RawObjects ==
    {k \in cloud.s3[state["dataBucket"].outputs.bucket].objects :
        IsPrefix(<<"r","a","w","/">>, k)}

\* resource r, declared with inputs in, exists at its provider
ExistsInCloud(c, r, in) ==
    CASE r = "dataBucket"      -> in.bucket \in DOMAIN c.s3
      [] r = "bucketPolicy"    -> in.bucket \in DOMAIN c.s3 /\ c.s3[in.bucket].policy # {}
      [] r = "snowflakeRole"   -> in.name \in DOMAIN c.iam
      [] r = "snowflakePolicy" -> in.role \in DOMAIN c.iam /\ c.iam[in.role].inline # {}
      [] OTHER                 -> SfKey(r, in) \in DOMAIN c.sf

NothingLeft ==
    /\ DOMAIN state = {}
    /\ pending = <<>>
    /\ DOMAIN cloud.s3 = {}
    /\ DOMAIN cloud.iam = {}
    /\ DOMAIN cloud.sf = {}

C1_Reapplying == phase = "applying" /\ SI \in DOMAIN state /\ trustPolicy = Identity

C1_Functional ==
    /\ phase = "idle"
    /\ SnowflakeCanAssume(cloud)
    /\ StageCanList(cloud)

C1_PatchApplied ==
    /\ Complete
    /\ state["snowflakeRole"].inputs.assumeRolePolicy = Identity

(* C1: once the operator has written the integration's generated IAM user   *)
(* ARN and external ID into the trust policy and reapplies, the apply       *)
(* reaches a state where Snowflake can assume the role and the stage can    *)
(* list its bucket; and whenever an apply has completed with that trust     *)
(* policy, LIST on the stage returns exactly the objects placed under       *)
(* s3://<bucket>/raw/.                                                      *)
Thm_C1 ==
    /\ C1_Reapplying ~> C1_Functional
    /\ [](C1_PatchApplied =>
            /\ SnowflakeCanAssume(cloud)
            /\ StageCanList(cloud)
            /\ StageListing(cloud) = RawObjects)

Wit_C1 ==
    /\ C1_PatchApplied
    /\ <<"snowflakeRole", "update">> \in ops
    /\ StageListing(cloud) # {}

(* C2: an apply that starts from a completed apply of the same program text *)
(* performs no create, update, replace or delete.                           *)
CX_C2 == (phase = "idle" /\ reapply) => ops = {}

(* C3: the physical names the program generates for two distinct stacks     *)
(* never coincide within a namespace.                                       *)
CX_C3 ==
    \A e1 \in Envs, e2 \in Envs :
        e1 # e2 => previews[e1] \cap previews[e2] = {}

(* C4: the program run registers every declaration: each one reads only     *)
(* outputs of resources declared before it, so the graph has no cycle; the  *)
(* role reads no output at all, and the integration reads the role's, so    *)
(* the role's need for the integration's identity is not an edge.           *)
Thm_C4 ==
    registered # <<>> =>
        /\ registered = Decls
        /\ \A i \in 1..Len(registered) :
              Refs(registered[i]) \subseteq {registered[j] : j \in 1..(i - 1)}
        /\ Refs("snowflakeRole") = {}
        /\ "snowflakeRole" \in Refs(SI)

Wit_C4 == phase = "applying" /\ registered = Decls /\ done = {}

C5_Binding ==
    \E b \in DOMAIN cloud.s3, n \in DOMAIN cloud.iam,
       i \in Integrations(cloud), s \in Stages(cloud) :
        /\ DOMAIN cloud.s3 = {b}
        /\ DOMAIN cloud.iam = {n}
        /\ Integrations(cloud) = {i}
        /\ Stages(cloud) = {s}
        /\ cloud.sf[i].inputs.storageAwsRoleArn = cloud.iam[n].arn
        /\ cloud.sf[i].inputs.storageAllowedLocations # {}
        /\ \A loc \in cloud.sf[i].inputs.storageAllowedLocations :
              IsPrefix(S3Scheme \o b \o Slash, loc)
        /\ IsPrefix(S3Scheme \o b \o Slash, cloud.sf[s].inputs.url)
        /\ cloud.sf[s].inputs.storageIntegration = i.name

C5_Held(r) == cloud.sf[SfKey(r, state[r].inputs)].inputs

C5_NoDangling ==
    /\ "bucketPolicy" \in DOMAIN state =>
          state["bucketPolicy"].inputs.bucket \in DOMAIN cloud.s3
    /\ "snowflakePolicy" \in DOMAIN state =>
          /\ state["snowflakePolicy"].inputs.role \in DOMAIN cloud.iam
          /\ \A res \in state["snowflakePolicy"].inputs.policy.resources :
                \E b \in DOMAIN cloud.s3 :
                    res \in {S3ArnPrefix \o b, S3ArnPrefix \o b \o SlashStar}
    /\ SI \in DOMAIN state =>
          /\ \E n \in DOMAIN cloud.iam :
                cloud.iam[n].arn = C5_Held(SI).storageAwsRoleArn
          /\ \A loc \in C5_Held(SI).storageAllowedLocations :
                BucketOfUrl(loc) \in DOMAIN cloud.s3
    /\ "s3Stage" \in DOMAIN state =>
          /\ BucketOfUrl(C5_Held("s3Stage").url) \in DOMAIN cloud.s3
          /\ \E i \in Integrations(cloud) :
                i.name = C5_Held("s3Stage").storageIntegration
    /\ \A r \in DOMAIN state \cap {"schema", "csvFileFormat", "parquetFileFormat",
                                   "s3Stage", "taxiTable"} :
          \E d \in DOMAIN cloud.sf :
              d.kind = "database" /\ d.name = C5_Held(r).database
    /\ \A r \in DOMAIN state \cap {"csvFileFormat", "parquetFileFormat",
                                   "s3Stage", "taxiTable"} :
          \E d \in DOMAIN cloud.sf :
              /\ d.kind = "schema"
              /\ d.name = C5_Held(r).schema
              /\ d.database = C5_Held(r).database

(* C5: when an apply has completed there is one bucket, one role, one       *)
(* integration and one stage; the integration names that role's ARN, its    *)
(* allowed location and the stage's URL start with s3://<that bucket>/, and *)
(* the stage names that integration.  In every state, each identifier a     *)
(* dependent holds is that of an existing resource.                         *)
Thm_C5 == (Complete => C5_Binding) /\ C5_NoDangling

Wit_C5 == Complete /\ <<"dataBucket", "replace">> \in ops

(* C6: a destroy, once started, ends with nothing left in the stack or at   *)
(* the providers, whatever the bucket holds; and between operations at most *)
(* one bucket exists, the stack's own.                                      *)
Thm_C6 ==
    /\ (phase = "destroying") ~> (phase = "idle" /\ NothingLeft)
    /\ [](phase = "idle" =>
            /\ Cardinality(DOMAIN cloud.s3) <= 1
            /\ \A b \in DOMAIN cloud.s3 :
                  "dataBucket" \in DOMAIN state
                  /\ state["dataBucket"].outputs.bucket = b)

Wit_C6 ==
    /\ phase = "destroying"
    /\ clock > 1
    /\ "dataBucket" \in DOMAIN state
    /\ RawObjects # {}

(* C7: the identifiers setup.sql and the instructions text use resolve to   *)
(* the names the stack exports.                                             *)
CX_C7 ==
    Complete =>
        /\ setupSql.warehouse = snowflakeOutputs(state).warehouseName
        /\ setupSql.database = snowflakeOutputs(state).databaseName
        /\ setupSql.schema = snowflakeOutputs(state).schemaName
        /\ setupSql.stage = snowflakeOutputs(state).stageName
        /\ setupSql.table = snowflakeOutputs(state).tableName
        /\ setupSql.storageIntegration = snowflakeOutputs(state).storageIntegrationName
        /\ setupSql.fileFormat = state["parquetFileFormat"].outputs.name
        /\ instructions(state).warehouse = snowflakeOutputs(state).warehouseName
        /\ instructions(state).database = snowflakeOutputs(state).databaseName
        /\ instructions(state).schema = snowflakeOutputs(state).schemaName
        /\ instructions(state).stage = snowflakeOutputs(state).stageName
        /\ instructions(state).table = snowflakeOutputs(state).tableName
        /\ instructions(state).fileFormat = state["parquetFileFormat"].outputs.name

(* C8: a complete apply from the empty state has created 11 resources, 3 on *)
(* AWS and 8 on Snowflake, under pairwise distinct logical names.           *)
CX_C8 ==
    (Complete /\ ops = {<<r, "create">> : r \in Resources}) =>
        /\ Cardinality(DOMAIN state) = 11
        /\ Cardinality({r \in DOMAIN state : Provider(r) = "aws"}) = 3
        /\ Cardinality({r \in DOMAIN state : Provider(r) = "snowflake"}) = 8
        /\ \A r1 \in DOMAIN state, r2 \in DOMAIN state :
              r1 # r2 => LogicalName(r1) # LogicalName(r2)

C9_Unpatched == trustPolicy = TrustPlaceholder

(* C9: as long as the trust policy in the program is the committed one,     *)
(* every role carries the wildcard principal and the placeholder external   *)
(* ID, Snowflake cannot assume the role and the stage lists nothing; the    *)
(* stage starts to reach its bucket only in a step of an apply that runs    *)
(* an edited trust policy.                                                  *)
Thm_C9 ==
    /\ [](C9_Unpatched =>
            /\ \A n \in DOMAIN cloud.iam :
                  /\ cloud.iam[n].trust.principal = Wildcard
                  /\ cloud.iam[n].trust.externalId = PlaceholderExternalId
            /\ ~SnowflakeCanAssume(cloud)
            /\ ~StageCanList(cloud)
            /\ StageListing(cloud) = {})
    /\ [][(~StageCanList(cloud) /\ StageCanList(cloud)') =>
            (phase = "applying" /\ ~C9_Unpatched)]_vars

Wit_C9 ==
    /\ C9_Unpatched
    /\ Complete
    /\ reapply
    /\ RawObjects # {}

C10_After(r) ==
    CASE r = "bucketPolicy"    -> {"dataBucket"}
      [] r = "snowflakePolicy" -> {"snowflakeRole", "dataBucket"}
      [] r = "schema"          -> {"database"}
      [] r = SI                -> {"snowflakeRole", "dataBucket"}
      [] r \in {"csvFileFormat", "parquetFileFormat", "taxiTable"}
                               -> {"database", "schema"}
      [] r = "s3Stage"         -> {"database", "schema", SI, "dataBucket"}
      [] OTHER                 -> {}

(* C10: whenever the engine creates, replaces or updates a resource, every  *)
(* resource it is ordered after (C10_After) is in the stack, exists at its  *)
(* provider and has been stepped by this apply.                             *)
Thm_C10 ==
    [][\A r \in Resources :
          (r \in DOMAIN state' /\ (r \notin DOMAIN state \/ state'[r] # state[r])) =>
              \A d \in C10_After(r) :
                  /\ d \in DOMAIN state
                  /\ ExistsInCloud(cloud, d, state[d].inputs)
                  /\ d \in done]_vars

Wit_C10 ==
    /\ phase = "applying"
    /\ "s3Stage" \in DOMAIN state
    /\ "snowflakeRole" \in DOMAIN state
    /\ "database" \in DOMAIN state
    /\ "warehouse" \notin DOMAIN state
    /\ "bucketPolicy" \notin DOMAIN state

(* C11: S3 grants s3:GetObject, s3:GetObjectVersion or s3:ListBucket on the *)
(* landing bucket only to a principal that has assumed the Snowflake access *)
(* role.                                                                    *)
CX_C11 ==
    \A b \in DOMAIN cloud.s3, who \in Principals(cloud),
       action \in BucketPolicyActions, k \in Keys :
        S3Allows(cloud, b, who, action, k) =>
            \E n \in DOMAIN cloud.iam : who.assumed = cloud.iam[n].arn

====
